---- MODULE Spec2Model ----
(***************************************************************************)
(* Model of github.com/mishudark/kit, package kit (v2/server.go):          *)
(* one Server.ServeHTTP call, the interceptingWriter that decorates the    *)
(* transport's http.ResponseWriter, EncodeJSONResponse and                 *)
(* DefaultErrorEncoder.                                                    *)
(***************************************************************************)
EXTENDS Integers, Sequences, FiniteSets, TLC

\* ---------------------------------------------------------------- bounds
MaxHooks == 2        \* longest s.before / s.after list explored
MaxFinalizers == 2   \* longest s.finalizer list explored
MaxEncOps == 1       \* writer operations a user-supplied encoder performs
MaxBody == 2         \* length in bytes of a serialized body
MaxLen == 3          \* longest slice handed to Reduce
MaxSize == 2         \* largest chunk size handed to Chunk
MaxItems == 3        \* most items sent on Chunk's input channel
MaxCalls == 2        \* concurrent ServeHTTP invocations on one Server
MaxWorkers == 2      \* most workers Run is started with

\* ------------------------------------------------------- program constants
StatusOK == 200
StatusNoContent == 204
StatusInternalServerError == 500

\* status codes a value's StatusCode() returns in the explored runs, beside
\* StatusNoContent
InputCodes == [created |-> 201, badRequest |-> 400]

VARIABLES
    before,     \* s.before: the registered RequestFuncs, in order
    after,      \* s.after: the registered ServerResponseFuncs, in order
    finalizer,  \* s.finalizer: the registered ServerFinalizerFuncs, in order
    enc,        \* s.enc: "json" (EncodeJSONResponse) or "custom" (user func)
    pc,         \* position of the call inside ServeHTTP
    ctx,        \* the local variable ctx of ServeHTTP
    idx,        \* loop index of the range loop being executed
    wrapped,    \* TRUE when w has been replaced by the interceptingWriter
    iw,         \* the interceptingWriter's fields code and written
    rw,         \* the transport's http.ResponseWriter (wrapped by iw)
    resp,       \* the value returned by the handler
    err,        \* the local variable err of ServeHTTP
    stage,      \* the stage whose error branch is executing ("" if none)
    encOps,     \* writer operations the user-supplied encoder has made
    calls,      \* writer operations as the callers of w saw them
    trace,      \* stage invocations of this call, in order
    value,      \* resolution: the value handed to an encoder, and the writer
    result,     \* resolution: the writer and error the encoder left behind
    redItems,   \* Reduce: the parameter items
    reducer,    \* Reduce: the parameter reducer
    redInit,    \* Reduce: the initialValue the caller passed
    initialValue, \* Reduce: the parameter initialValue, reassigned by the loop
    redIdx,     \* Reduce: the range index i
    redCalls,   \* Reduce: the calls made to reducer, in order
    redPc,      \* Reduce: "loop", "done" ("idle" when not running)
    size,       \* Chunk: the parameter size
    toSend,     \* Chunk: number of items the producer sends before closing
    itemsCh,    \* Chunk: the channel items: items sent so far, closed or not
    bucket,     \* Chunk: the local slice bucket
    counter,    \* Chunk: the local counter
    chunkPc,    \* Chunk: position of the goroutine Chunk starts
    execCalls,  \* Chunk: the slices passed to exec, in call order
    pending,    \* Chunk: the exec result the goroutine is sending on errs
    errsClosed, \* Chunk: TRUE once errs is closed
    received,   \* Chunk: the results the consumer has received from errs
    consPc,     \* Chunk: position of the consumer ranging over errs
    arrays,     \* Chunk: the backing arrays make has allocated
    bucketArr,  \* Chunk: the backing array bucket points into
    execArrs,   \* Chunk: the backing array of the slice of each exec call
    options,    \* shared Server: the options NewServer was called with
    server,     \* shared Server: the struct NewServer returned
    invocations, \* shared Server: the locals of each running ServeHTTP
    writers,    \* shared Server: the writer w each invocation holds
    emitted,    \* shared Server: what the error router logged or emitted
    workers,    \* Run: the workers argument
    forEach,    \* Run: the forEach argument
    runToSend,  \* Run: how many items the producer sends before closing
    runItems,   \* Run: the input channel: items taken, closed
    wk,         \* Run: each worker goroutine: position, item, result
    wg,         \* Run: the WaitGroup counter
    errCh,      \* Run: the buffer of the returned channel
    errClosed,  \* Run: the returned channel is closed
    closerPc,   \* Run: position of the goroutine that waits and closes
    runConsPc,  \* Run: position of the consumer of the returned channel
    forEachCalls, \* Run: how often forEach was called with each item
    delivered,  \* Run: how many results for each item were sent
    consumed,   \* Run: how many results the consumer has received
    panicked    \* Run: a send on the closed channel has panicked

\* one ServeHTTP call
serveVars == <<before, after, finalizer, enc, pc, ctx, idx, wrapped, iw, rw,
               resp, err, stage, encOps, calls, trace>>

\* one application of DefaultErrorEncoder or EncodeJSONResponse
resolveVars == <<value, result>>

\* one call of Reduce
reduceVars == <<redItems, reducer, redInit, initialValue, redIdx, redCalls, redPc>>

\* one call of Chunk with its producer and consumer
chunkVars == <<size, toSend, itemsCh, bucket, counter, chunkPc, execCalls,
               pending, errsClosed, received, consPc, arrays, bucketArr,
               execArrs>>

\* one Server serving concurrent calls
sharedVars == <<options, server, invocations, writers, emitted>>

\* Run
runVars == <<workers, forEach, runToSend, runItems, wk, wg, errCh, errClosed,
             closerPc, runConsPc, forEachCalls, delivered, consumed, panicked>>

vars == <<serveVars, resolveVars, reduceVars, chunkVars, sharedVars, runVars>>

\* what the steps of ServeHTTP leave alone
notServe == <<resolveVars, reduceVars, chunkVars, sharedVars, runVars>>

\* what an encoder application leaves alone
notResolve == <<serveVars, reduceVars, chunkVars, sharedVars, runVars>>

\* what Reduce leaves alone
notReduce == <<serveVars, resolveVars, chunkVars, sharedVars, runVars>>

\* what Chunk leaves alone
notChunk == <<serveVars, resolveVars, reduceVars, sharedVars, runVars>>

\* what the calls on the shared Server leave alone
notShared == <<serveVars, resolveVars, reduceVars, chunkVars, runVars>>

\* what Run leaves alone
notRun == <<serveVars, resolveVars, reduceVars, chunkVars, sharedVars>>

config == <<before, after, finalizer, enc>>

\* ------------------------------------------------------------ value domains
Ids(n) == [i \in 1..n |-> i]

\* error values: name, and the optional capabilities StatusCoder,
\* json.Marshaler (ms: "none", "ok" = marshals, "fail" = MarshalJSON errors)
\* and Headerer
NoErr == [name |-> "nil", sc |-> FALSE, code |-> 0, ms |-> "none", hd |-> FALSE]

ErrorValue(s, m, h) ==
    [name |-> "err", sc |-> s, code |-> IF s THEN InputCodes.badRequest ELSE 0,
     ms |-> m, hd |-> h]

\* the error values stages return in the explored runs: no capability;
\* all three capabilities; a json.Marshaler whose MarshalJSON fails
Errors ==
    {ErrorValue(FALSE, "none", FALSE), ErrorValue(TRUE, "ok", TRUE),
     ErrorValue(FALSE, "fail", FALSE)}

\* the error a failing Write of the transport returns
WriteErr == [name |-> "werr", sc |-> FALSE, code |-> 0, ms |-> "none", hd |-> FALSE]

\* response values: optional StatusCoder and Headerer, and whether
\* json encoding of the value succeeds
NoResp == [sc |-> FALSE, code |-> 0, hd |-> FALSE, mok |-> TRUE, len |-> 0]

ResponseValue(c, h, m) ==
    [sc |-> c # 0, code |-> c, hd |-> h, mok |-> m, len |-> MaxBody]

\* the response values the handler returns in the explored runs
Responses ==
    {ResponseValue(0, FALSE, TRUE), ResponseValue(0, FALSE, FALSE),
     ResponseValue(InputCodes.created, TRUE, TRUE),
     ResponseValue(StatusNoContent, FALSE, TRUE),
     ResponseValue(StatusNoContent, TRUE, FALSE)}

NoBody == [src |-> "none", len |-> 0]

HeaderKeys == {"Content-Type", "X-Cap", "X-Hook"}

EmptyHeader == [k \in HeaderKeys |-> <<>>]

\* ------------------------------------------------ transport ResponseWriter
\* One writer operation as logged: op, its arguments, and what it returned.
Op(o, k, v, c, p, n, e) ==
    [op |-> o, key |-> k, val |-> v, code |-> c, p |-> p, n |-> n, err |-> e]

\* The possible results (n, err) of the transport's Write for p: all of p
\* written, or a short write with an error.
WriteResults(p) ==
    {<<p.len, NoErr>>} \cup {<<k, WriteErr>> : k \in 0..(p.len - 1)}

NewResponseWriter ==
    [wroteHeader |-> FALSE, status |-> 0, sent |-> 0,
     header |-> EmptyHeader, ops |-> <<>>]

\* http.ResponseWriter.Header().Set(k, v)
RW_HeaderSet(w, k, v) ==
    [w EXCEPT !.header[k] = <<v>>,
              !.ops = Append(@, Op("Set", k, v, 0, NoBody, 0, NoErr))]

\* http.ResponseWriter.Header().Add(k, v)
RW_HeaderAdd(w, k, v) ==
    [w EXCEPT !.header[k] = Append(@, v),
              !.ops = Append(@, Op("Add", k, v, 0, NoBody, 0, NoErr))]

\* http.ResponseWriter.WriteHeader(code): only the first status write is sent
RW_WriteHeader(w, code) ==
    [w EXCEPT !.wroteHeader = TRUE,
              !.status = IF w.wroteHeader THEN @ ELSE code,
              !.ops = Append(@, Op("WriteHeader", "", "", code, NoBody, 0, NoErr))]

\* http.ResponseWriter.Write(p) returning (n, e): a body write with no prior
\* status write sends 200
RW_Write(w, p, n, e) ==
    [w EXCEPT !.wroteHeader = TRUE,
              !.status = IF w.wroteHeader THEN @ ELSE StatusOK,
              !.sent = @ + n,
              !.ops = Append(@, Op("Write", "", "", 0, p, n, e))]

\* ------------------------------------------------------ interceptingWriter
NoIW == [code |-> 0, written |-> 0]

\* variant: code left at its zero value
NewInterceptingWriter_Unset == [code |-> 0, written |-> 0]

\* &interceptingWriter{w, http.StatusOK, 0}
NewInterceptingWriter == [code |-> StatusOK, written |-> 0]

\* a pair (interceptingWriter fields, wrapped writer) with a returned value
WS(i, w, n, e) == [iw |-> i, rw |-> w, n |-> n, err |-> e]

\* variant: the status is recorded but not forwarded
IW_WriteHeader_NotForwarded(i, w, code) ==
    WS([i EXCEPT !.code = code], w, 0, NoErr)

\* func (w *interceptingWriter) WriteHeader(code int)
IW_WriteHeader(i, w, code) ==
    WS([i EXCEPT !.code = code], RW_WriteHeader(w, code), 0, NoErr)

\* variant: bytes are counted only when the Write reports no error
IW_Write_OnlyOnSuccess(i, w, p, n, e) ==
    WS([i EXCEPT !.written = IF e = NoErr THEN @ + n ELSE @],
       RW_Write(w, p, n, e), n, e)

\* func (w *interceptingWriter) Write(p []byte) (int, error)
IW_Write(i, w, p, n, e) ==
    WS([i EXCEPT !.written = @ + n], RW_Write(w, p, n, e), n, e)

\* Header() is promoted from the embedded http.ResponseWriter
IW_HeaderSet(i, w, k, v) == WS(i, RW_HeaderSet(w, k, v), 0, NoErr)

IW_HeaderAdd(i, w, k, v) == WS(i, RW_HeaderAdd(w, k, v), 0, NoErr)

\* ---------------------------------------- the writer w ServeHTTP passes on
\* A writer state as seen by the code that holds w: the decorator (when
\* installed), the transport writer, and the log of calls made on w.
W(i, w, cs) == [iw |-> i, rw |-> w, calls |-> cs]

W_HeaderSet(s, wr, k, v) ==
    LET r == IF wr THEN IW_HeaderSet(s.iw, s.rw, k, v)
                   ELSE WS(s.iw, RW_HeaderSet(s.rw, k, v), 0, NoErr)
    IN  W(r.iw, r.rw, Append(s.calls, Op("Set", k, v, 0, NoBody, r.n, r.err)))

W_HeaderAdd(s, wr, k, v) ==
    LET r == IF wr THEN IW_HeaderAdd(s.iw, s.rw, k, v)
                   ELSE WS(s.iw, RW_HeaderAdd(s.rw, k, v), 0, NoErr)
    IN  W(r.iw, r.rw, Append(s.calls, Op("Add", k, v, 0, NoBody, r.n, r.err)))

W_WriteHeader(s, wr, code) ==
    LET r == IF wr THEN IW_WriteHeader(s.iw, s.rw, code)
                   ELSE WS(s.iw, RW_WriteHeader(s.rw, code), 0, NoErr)
    IN  W(r.iw, r.rw,
          Append(s.calls, Op("WriteHeader", "", "", code, NoBody, r.n, r.err)))

W_Write(s, wr, p, n, e) ==
    LET r == IF wr THEN IW_Write(s.iw, s.rw, p, n, e)
                   ELSE WS(s.iw, RW_Write(s.rw, p, n, e), n, e)
    IN  W(r.iw, r.rw, Append(s.calls, Op("Write", "", "", 0, p, r.n, r.err)))

\* ----------------------------------------------------------- the encoders
\* the error json encoding returns for a value that cannot be marshaled
MarshalErr == [name |-> "marshal", sc |-> FALSE, code |-> 0, ms |-> "none", hd |-> FALSE]

JSONBody(response) == [src |-> "json", len |-> response.len]

\* variant: the response's StatusCoder is not consulted
ResponseCode_Always200(response) == StatusOK

\* the status code EncodeJSONResponse resolves for a response value
ResponseCode(response) == IF response.sc THEN response.code ELSE StatusOK

\* TRUE when EncodeJSONResponse reaches the transport's Write for the value
JSONWrites(response) ==
    ResponseCode(response) # StatusNoContent /\ response.mok

\* variant: the no-content check is missing
EncodeJSONResponse_No204(s, wr, response, n, e) ==
    LET s1 == W_HeaderSet(s, wr, "Content-Type", "application/json; charset=utf-8")
        s2 == IF response.hd THEN W_HeaderAdd(s1, wr, "X-Cap", "v") ELSE s1
        s3 == W_WriteHeader(s2, wr, ResponseCode(response))
    IN  IF ~response.mok THEN [w |-> s3, err |-> MarshalErr]
        ELSE [w |-> W_Write(s3, wr, JSONBody(response), n, e), err |-> e]

\* func EncodeJSONResponse(_, w, response) error, where (n, e) is what the
\* body Write returns if one is made.  Yields the writer and the error.
EncodeJSONResponse(s, wr, response, n, e) ==
    LET s1 == W_HeaderSet(s, wr, "Content-Type", "application/json; charset=utf-8")
        s2 == IF response.hd THEN W_HeaderAdd(s1, wr, "X-Cap", "v") ELSE s1
        code == ResponseCode(response)
        s3 == W_WriteHeader(s2, wr, code)
    IN  IF code = StatusNoContent THEN [w |-> s3, err |-> NoErr]
        ELSE IF ~response.mok THEN [w |-> s3, err |-> MarshalErr]
        ELSE [w |-> W_Write(s3, wr, JSONBody(response), n, e), err |-> e]

ErrorBody(e) ==
    IF e.ms = "ok" THEN [src |-> "errjson", len |-> MaxBody]
                   ELSE [src |-> "errtext", len |-> MaxBody]

ErrorContentType(e) ==
    IF e.ms = "ok" THEN "application/json; charset=utf-8"
                   ELSE "text/plain; charset=utf-8"

\* variant: the error's StatusCoder is not consulted
ErrorCode_Always500(e) == StatusInternalServerError

ErrorCode(e) == IF e.sc THEN e.code ELSE StatusInternalServerError

\* func DefaultErrorEncoder(_, err, w), where (n, we) is what the body
\* Write returns.  Yields the writer.
DefaultErrorEncoder(s, wr, e, n, we) ==
    LET s1 == W_HeaderSet(s, wr, "Content-Type", ErrorContentType(e))
        s2 == IF e.hd THEN W_HeaderAdd(s1, wr, "X-Cap", "v") ELSE s1
        s3 == W_WriteHeader(s2, wr, ErrorCode(e))
    IN  W_Write(s3, wr, ErrorBody(e), n, we)

\* ------------------------------------------------------------- the context
\* r.Context(): the inbound request's context
RequestContext == [hooks |-> <<>>, annotated |-> FALSE,
                   headers |-> EmptyHeader, size |-> 0]

\* variant: the context a hook returns is discarded
HookContext_Dropped(c, kind, id) == c

\* a RequestFunc / ServerResponseFunc returns a context derived from the
\* one it received
HookContext(c, kind, id) ==
    [c EXCEPT !.hooks = Append(@, [hook |-> kind, id |-> id])]

\* context.WithValue(ctx, ContextKeyResponseHeaders, iw.Header()) followed by
\* context.WithValue(ctx, ContextKeyResponseSize, iw.written)
FinalizerContext(c, i, w) ==
    [c EXCEPT !.annotated = TRUE, !.headers = w.header, !.size = i.written]

\* ------------------------------------------------------------- the trace
Ev(e, id, c, er, code) == [ev |-> e, id |-> id, ctx |-> c, err |-> er, code |-> code]

\* where ServeHTTP goes when its body returns: the deferred function runs
\* only if it was registered
AfterReturn == IF Len(finalizer) > 0 THEN "defer" ELSE "done"

\* variant: the finalizers are called at the end of the body, so a panic
\* unwinds past them
AfterPanic_NoDefer == "done"

\* a panic unwinding ServeHTTP runs the deferred function when registered
AfterPanic == AfterReturn

\* variant: a decode failure is rendered without being reported
AfterDecode_NoRouter(e) == IF e # NoErr THEN "errenc" ELSE "h"

\* if err != nil after s.dec: enter the error branch, else go on to s.h
AfterDecode(e) == IF e # NoErr THEN "router" ELSE "h"

\* if err != nil after s.h: enter the error branch, else run the post-hooks
AfterHandle(e) == IF e # NoErr THEN "router" ELSE "after"

\* variant: the encoder's error is dropped
AfterEncode_Ignored(e) == AfterReturn

\* if err != nil after s.enc: enter the error branch, else return
AfterEncode(e) == IF e # NoErr THEN "router" ELSE AfterReturn

\* variant: the return after a decode failure is missing
AfterErrorEncoder_NoReturn(st) == IF st = "dec" THEN "h" ELSE AfterReturn

\* variant: finalizers are called at the end of the body, not deferred, so
\* the early returns skip them
AfterErrorEncoder_NoDefer(st) == IF st = "enc" THEN AfterReturn ELSE "done"

\* after s.errorEncoder in the error branch of stage st: return
AfterErrorEncoder(st) == AfterReturn

\* variant: the range loop walks the list from its end
Hook_Reversed(l, i) == l[Len(l) + 1 - i]

\* the next hook of a range loop over list l at index i
Hook(l, i) == l[i]

\* ------------------------------------------------------------ resolution
\* no value is being resolved
NoValue == [kind |-> "none", e |-> NoErr, r |-> NoResp, code |-> 0, wr |-> FALSE]

NoOut == [done |-> FALSE, w |-> W(NoIW, NewResponseWriter, <<>>), err |-> NoErr]

IdleResolve == value = NoValue /\ result = NoOut

\* no ServeHTTP call is running
IdleServe ==
    /\ before = <<>> /\ after = <<>> /\ finalizer = <<>> /\ enc = "json"
    /\ pc = "idle" /\ ctx = RequestContext /\ idx = 0
    /\ wrapped = FALSE /\ iw = NoIW /\ rw = NewResponseWriter
    /\ resp = NoResp /\ err = NoErr /\ stage = "" /\ encOps = 0
    /\ calls = <<>> /\ trace = <<>>

\* Reduce is not running
IdleReduce ==
    /\ redItems = <<>> /\ reducer = "nop" /\ redInit = 0 /\ initialValue = 0
    /\ redIdx = 0 /\ redCalls = <<>> /\ redPc = "idle"

\* Chunk is not running
IdleChunk ==
    /\ size = 1 /\ toSend = 0 /\ itemsCh = [sent |-> 0, closed |-> FALSE]
    /\ bucket = <<>> /\ counter = 0 /\ chunkPc = "idle" /\ execCalls = <<>>
    /\ pending = "none" /\ errsClosed = FALSE /\ received = <<>>
    /\ consPc = "idle"
    /\ arrays = <<>> /\ bucketArr = 0 /\ execArrs = <<>>

\* no shared Server has been built
IdleShared ==
    /\ options = <<>> /\ server = <<>> /\ invocations = <<>>
    /\ writers = <<>> /\ emitted = <<>>

\* Run has not been called
IdleRun ==
    /\ workers = 0 /\ forEach = "none" /\ runToSend = 0
    /\ runItems = [sent |-> 0, closed |-> FALSE]
    /\ wk = <<>> /\ wg = 0 /\ errCh = <<>> /\ errClosed = FALSE
    /\ closerPc = "idle" /\ runConsPc = "idle"
    /\ forEachCalls = <<>> /\ delivered = <<>> /\ consumed = 0
    /\ panicked = FALSE

\* ------------------------------------------------------------------- Init
Init ==
    /\ before \in {Ids(n) : n \in 0..MaxHooks}
    /\ after \in {Ids(n) : n \in 0..MaxHooks}
    /\ finalizer \in {Ids(n) : n \in 0..MaxFinalizers}
    /\ enc \in {"json", "custom"}
    /\ pc = "start"
    /\ ctx = RequestContext
    /\ idx = 0
    /\ wrapped = FALSE
    /\ iw = NoIW
    /\ rw = NewResponseWriter
    /\ resp = NoResp
    /\ err = NoErr
    /\ stage = ""
    /\ encOps = 0
    /\ calls = <<>>
    /\ trace = <<>>
    /\ IdleResolve
    /\ IdleReduce
    /\ IdleChunk
    /\ IdleShared
    /\ IdleRun

\* ---------------------------------------------------------------- actions
\* ServeHTTP entry: ctx := r.Context(); install the interceptingWriter and
\* register the deferred finalizers when len(s.finalizer) > 0
Begin ==
    /\ pc = "start"
    /\ ctx' = RequestContext
    /\ IF Len(finalizer) > 0
         THEN wrapped' = TRUE /\ iw' = NewInterceptingWriter
         ELSE UNCHANGED <<wrapped, iw>>
    /\ pc' = "before"
    /\ idx' = 1
    /\ UNCHANGED <<config, rw, resp, err, stage, encOps, calls, trace>>
    /\ UNCHANGED notServe

\* for _, f := range s.before { ctx = f(ctx, r) }
RunBefore ==
    /\ pc = "before"
    /\ idx <= Len(before)
    /\ trace' = Append(trace, Ev("before", Hook(before, idx), ctx, NoErr, 0))
    /\ ctx' = HookContext(ctx, "before", Hook(before, idx))
    /\ idx' = idx + 1
    /\ UNCHANGED <<config, pc, wrapped, iw, rw, resp, err, stage, encOps, calls>>
    /\ UNCHANGED notServe

\* req, err := s.dec(ctx, r)
Decode ==
    /\ pc = "before"
    /\ idx > Len(before)
    /\ \E e \in {NoErr} \cup Errors :
         /\ trace' = Append(trace, Ev("dec", 0, ctx, e, 0))
         /\ err' = e
         /\ pc' = AfterDecode(e)
    /\ stage' = "dec"
    /\ UNCHANGED <<config, ctx, idx, wrapped, iw, rw, resp, encOps, calls>>
    /\ UNCHANGED notServe

\* resp, err := s.h(ctx, req)
Handle ==
    /\ pc = "h"
    /\ \/ \E v \in Responses :
            /\ resp' = v
            /\ err' = NoErr
            /\ trace' = Append(trace, Ev("h", 0, ctx, NoErr, 0))
            /\ pc' = AfterHandle(NoErr)
       \/ \E e \in Errors :
            /\ resp' = NoResp
            /\ err' = e
            /\ trace' = Append(trace, Ev("h", 0, ctx, e, 0))
            /\ pc' = AfterHandle(e)
    /\ stage' = "h"
    /\ idx' = 1
    /\ UNCHANGED <<config, ctx, wrapped, iw, rw, encOps, calls>>
    /\ UNCHANGED notServe

\* for _, f := range s.after { ctx = f(ctx, w) }; the hook sets a header
\* on w, as the package's SetResponseHeader does
RunAfter ==
    /\ pc = "after"
    /\ idx <= Len(after)
    /\ LET s == W_HeaderSet(W(iw, rw, calls), wrapped, "X-Hook", "v")
       IN  /\ iw' = s.iw
           /\ rw' = s.rw
           /\ calls' = s.calls
    /\ trace' = Append(trace, Ev("after", Hook(after, idx), ctx, NoErr, 0))
    /\ ctx' = HookContext(ctx, "after", Hook(after, idx))
    /\ idx' = idx + 1
    /\ UNCHANGED <<config, pc, wrapped, resp, err, stage, encOps>>
    /\ UNCHANGED notServe

\* err = s.enc(ctx, w, resp) with s.enc = EncodeJSONResponse
EncodeJSON ==
    /\ pc = "after"
    /\ idx > Len(after)
    /\ enc = "json"
    /\ \E r \in IF JSONWrites(resp) THEN WriteResults(JSONBody(resp))
                                     ELSE {<<0, NoErr>>} :
         LET out == EncodeJSONResponse(W(iw, rw, calls), wrapped, resp, r[1], r[2])
         IN  /\ iw' = out.w.iw
             /\ rw' = out.w.rw
             /\ calls' = out.w.calls
             /\ err' = out.err
             /\ trace' = trace \o <<Ev("enc", 0, ctx, NoErr, 0),
                                    Ev("encRet", 0, ctx, out.err, 0)>>
             /\ pc' = AfterEncode(out.err)
    /\ stage' = "enc"
    /\ UNCHANGED <<config, ctx, idx, wrapped, resp, encOps>>
    /\ UNCHANGED notServe

\* err = s.enc(ctx, w, resp) with a user-supplied EncodeReponseFunc: entry
EncodeCustom ==
    /\ pc = "after"
    /\ idx > Len(after)
    /\ enc = "custom"
    /\ trace' = Append(trace, Ev("enc", 0, ctx, NoErr, 0))
    /\ encOps' = 0
    /\ pc' = "enc"
    /\ UNCHANGED <<config, ctx, idx, wrapped, iw, rw, resp, err, stage, calls>>
    /\ UNCHANGED notServe

\* the user-supplied encoder makes one call on w
EncodeCustomOp ==
    /\ pc = "enc"
    /\ encOps < MaxEncOps
    /\ \E s \in {W_HeaderSet(W(iw, rw, calls), wrapped, "Content-Type", "custom")}
             \cup {W_WriteHeader(W(iw, rw, calls), wrapped, InputCodes.created)}
             \cup {W_Write(W(iw, rw, calls), wrapped,
                           [src |-> "custom", len |-> MaxBody], r[1], r[2]) :
                      r \in WriteResults([src |-> "custom", len |-> MaxBody])} :
         /\ iw' = s.iw
         /\ rw' = s.rw
         /\ calls' = s.calls
    /\ encOps' = encOps + 1
    /\ UNCHANGED <<config, pc, ctx, idx, wrapped, resp, err, stage, trace>>
    /\ UNCHANGED notServe

\* the user-supplied encoder returns
EncodeCustomReturn ==
    /\ pc = "enc"
    /\ \E e \in {NoErr} \cup Errors :
         /\ err' = e
         /\ trace' = Append(trace, Ev("encRet", 0, ctx, e, 0))
         /\ pc' = AfterEncode(e)
    /\ stage' = "enc"
    /\ UNCHANGED <<config, ctx, idx, wrapped, iw, rw, resp, encOps, calls>>
    /\ UNCHANGED notServe

\* s.errorHandler.Handle(ctx, err)
HandleError ==
    /\ pc = "router"
    /\ trace' = Append(trace, Ev("router", 0, ctx, err, 0))
    /\ pc' = "errenc"
    /\ UNCHANGED <<config, ctx, idx, wrapped, iw, rw, resp, err, stage, encOps, calls>>
    /\ UNCHANGED notServe

\* s.errorEncoder(ctx, err, w) with s.errorEncoder = DefaultErrorEncoder
EncodeError ==
    /\ pc = "errenc"
    /\ \E r \in WriteResults(ErrorBody(err)) :
         LET s == DefaultErrorEncoder(W(iw, rw, calls), wrapped, err, r[1], r[2])
         IN  /\ iw' = s.iw
             /\ rw' = s.rw
             /\ calls' = s.calls
    /\ trace' = Append(trace, Ev("errenc", 0, ctx, err, 0))
    /\ pc' = AfterErrorEncoder(stage)
    /\ UNCHANGED <<config, ctx, idx, wrapped, resp, err, stage, encOps>>
    /\ UNCHANGED notServe

\* the deferred function: annotate ctx with the headers and iw.written
Deferred ==
    /\ pc = "defer"
    /\ ctx' = FinalizerContext(ctx, iw, rw)
    /\ idx' = 1
    /\ pc' = "fin"
    /\ UNCHANGED <<config, wrapped, iw, rw, resp, err, stage, encOps, calls, trace>>
    /\ UNCHANGED notServe

\* for _, f := range s.finalizer { f(ctx, iw.code, r) }
RunFinalizer ==
    /\ pc = "fin"
    /\ idx <= Len(finalizer)
    /\ trace' = Append(trace, Ev("fin", Hook(finalizer, idx), ctx, NoErr, iw.code))
    /\ idx' = idx + 1
    /\ pc' = IF idx = Len(finalizer) THEN "done" ELSE "fin"
    /\ UNCHANGED <<config, ctx, wrapped, iw, rw, resp, err, stage, encOps, calls>>
    /\ UNCHANGED notServe

Next ==
    \/ Begin
    \/ RunBefore
    \/ Decode
    \/ Handle
    \/ RunAfter
    \/ EncodeJSON
    \/ EncodeCustom
    \/ EncodeCustomOp
    \/ EncodeCustomReturn
    \/ HandleError
    \/ EncodeError
    \/ Deferred
    \/ RunFinalizer

Spec == Init /\ [][Next]_vars

\* a hook, the decoder, the handler or the encoder panics instead of
\* returning: ServeHTTP unwinds, running its deferred function
Panic ==
    /\ pc \in {"before", "h", "after", "enc"}
    /\ trace' = Append(trace, Ev("panic", 0, ctx, NoErr, 0))
    /\ pc' = AfterPanic
    /\ UNCHANGED <<config, ctx, idx, wrapped, iw, rw, resp, err, stage, encOps, calls>>
    /\ UNCHANGED notServe

NextPanic ==
    \/ Begin
    \/ RunBefore
    \/ Decode
    \/ Handle
    \/ RunAfter
    \/ EncodeJSON
    \/ EncodeCustom
    \/ EncodeCustomOp
    \/ EncodeCustomReturn
    \/ HandleError
    \/ EncodeError
    \/ Deferred
    \/ RunFinalizer
    \/ Panic

\* ServeHTTP with stages that may panic
SpecPanic == Init /\ [][NextPanic]_vars

\* ------------------------------------------------------------ ReponseCode
\* json.Marshal(v): the bytes of v without the newline Encode appends, or
\* an error
Marshal(v) == [ok |-> v.mok, len |-> IF v.mok THEN v.len - 1 ELSE 0]

\* func AddStatusCode(resp any, code int) *ReponseCode
AddStatusCode(v, c) == [resp |-> v, code |-> c]

\* variant: the code of the wrapped value wins when it has one
ReponseCode_StatusCode_Inner(r) == IF r.resp.sc THEN r.resp.code ELSE r.code

\* func (r *ReponseCode) StatusCode() int
ReponseCode_StatusCode(r) == r.code

\* variant: the struct is marshaled with its code
ReponseCode_MarshalJSON_WithCode(r) ==
    [ok |-> r.resp.mok, len |-> IF r.resp.mok THEN r.resp.len ELSE 0]

\* func (r *ReponseCode) MarshalJSON() ([]byte, error)
ReponseCode_MarshalJSON(r) == Marshal(r.resp)

\* a *ReponseCode as EncodeJSONResponse sees it: a StatusCoder and a
\* json.Marshaler, not a Headerer; Encode appends a newline to MarshalJSON
AsResponse(r) ==
    [sc |-> TRUE, code |-> ReponseCode_StatusCode(r), hd |-> FALSE,
     mok |-> ReponseCode_MarshalJSON(r).ok,
     len |-> IF ReponseCode_MarshalJSON(r).ok
               THEN ReponseCode_MarshalJSON(r).len + 1 ELSE 0]

\* ------------------------------------------- applying an encoder to a value
\* every combination of the three optional capabilities of an error
AllErrors ==
    {ErrorValue(s, m, h) :
        s \in BOOLEAN, m \in {"none", "ok", "fail"}, h \in BOOLEAN}

\* response values with every combination of capabilities
AllResponses ==
    {ResponseValue(c, h, m) :
        c \in {0, InputCodes.created, StatusNoContent},
        h \in BOOLEAN, m \in BOOLEAN}

\* the codes handed to AddStatusCode
WrapperCodes == {InputCodes.created, StatusNoContent}

\* the response value EncodeJSONResponse receives for the chosen input
Resolved(x) ==
    IF x.kind = "wrapper" THEN AsResponse(AddStatusCode(x.r, x.code)) ELSE x.r

\* a fresh writer, decorated with the interceptingWriter when wr
FreshWriter(wr) ==
    W(IF wr THEN NewInterceptingWriter ELSE NoIW, NewResponseWriter, <<>>)

InitResolve ==
    /\ value \in
          {[kind |-> "error", e |-> e, r |-> NoResp, code |-> 0, wr |-> b] :
              e \in AllErrors, b \in BOOLEAN}
          \cup {[kind |-> "response", e |-> NoErr, r |-> v, code |-> 0, wr |-> b] :
              v \in AllResponses, b \in BOOLEAN}
          \cup {[kind |-> "wrapper", e |-> NoErr, r |-> v, code |-> c, wr |-> b] :
              v \in AllResponses, c \in WrapperCodes, b \in BOOLEAN}
    /\ result = NoOut
    /\ IdleServe
    /\ IdleReduce
    /\ IdleChunk
    /\ IdleShared
    /\ IdleRun

\* DefaultErrorEncoder(ctx, err, w) on a fresh writer
ResolveError ==
    /\ value.kind = "error"
    /\ ~result.done
    /\ \E r \in WriteResults(ErrorBody(value.e)) :
         result' = [done |-> TRUE,
                    w |-> DefaultErrorEncoder(FreshWriter(value.wr), value.wr,
                                              value.e, r[1], r[2]),
                    err |-> NoErr]
    /\ UNCHANGED value
    /\ UNCHANGED notResolve

\* EncodeJSONResponse(ctx, w, response) on a fresh writer, for a plain value
\* or for the *ReponseCode AddStatusCode returns
ResolveResponse ==
    /\ value.kind \in {"response", "wrapper"}
    /\ ~result.done
    /\ \E r \in IF JSONWrites(Resolved(value))
                   THEN WriteResults(JSONBody(Resolved(value)))
                   ELSE {<<0, NoErr>>} :
         LET o == EncodeJSONResponse(FreshWriter(value.wr), value.wr,
                                     Resolved(value), r[1], r[2])
         IN  result' = [done |-> TRUE, w |-> o.w, err |-> o.err]
    /\ UNCHANGED value
    /\ UNCHANGED notResolve

NextResolve ==
    \/ ResolveError
    \/ ResolveResponse

\* the encoders applied to every kind of value
SpecResolve == InitResolve /\ [][NextResolve]_vars

\* ------------------------------------------------------------------ Reduce
\* the values of the items and of the initial value in the explored runs
ItemValues == {1, 2}

InitValues == {0, 1}

\* the reducers of the explored runs: the sum and the no-op of TestReduce,
\* and one for which order and index matter
Reducers == {"sum", "nop", "weighted"}

\* reducer(accum, index, item)
Apply(f, accum, index, item) ==
    CASE f = "sum" -> accum + item
      [] f = "nop" -> accum
      [] OTHER -> 2 * accum + index * item + 1

\* all slices of at most n items
Slices(n) == UNION {[1..k -> ItemValues] : k \in 0..n}

\* variant: the loop walks the slice from its end
RangeItem_Reversed(l, i) == l[Len(l) - i]

\* the item the range loop yields at (0-based) index i
RangeItem(l, i) == l[i + 1]

InitReduce ==
    /\ redItems \in Slices(MaxLen)
    /\ reducer \in Reducers
    /\ redInit \in InitValues
    /\ initialValue = redInit
    /\ redIdx = 0
    /\ redCalls = <<>>
    /\ redPc = "loop"
    /\ IdleServe
    /\ IdleResolve
    /\ IdleChunk
    /\ IdleShared
    /\ IdleRun

\* for i, item := range items { initialValue = reducer(initialValue, i, item) }
ReduceStep ==
    /\ redPc = "loop"
    /\ redIdx < Len(redItems)
    /\ LET item == RangeItem(redItems, redIdx)
           ret == Apply(reducer, initialValue, redIdx, item)
       IN  /\ redCalls' = Append(redCalls,
                  [accum |-> initialValue, index |-> redIdx, item |-> item,
                   ret |-> ret])
           /\ initialValue' = ret
    /\ redIdx' = redIdx + 1
    /\ UNCHANGED <<redItems, reducer, redInit, redPc>>
    /\ UNCHANGED notReduce

\* return initialValue
ReduceReturn ==
    /\ redPc = "loop"
    /\ redIdx = Len(redItems)
    /\ redPc' = "done"
    /\ UNCHANGED <<redItems, reducer, redInit, initialValue, redIdx, redCalls>>
    /\ UNCHANGED notReduce

NextReduce ==
    \/ ReduceStep
    \/ ReduceReturn

SpecReduce == InitReduce /\ [][NextReduce]_vars

\* ------------------------------------------------------------------- Chunk
\* the results exec returns in the explored runs
ExecResults == {"nil", "err"}

\* the k-th item the producer sends
Item(k) == k

\* variant: the items left after the channel closes are dropped
TailPending_Never(b) == FALSE

\* if len(bucket) != 0 after the range loop
TailPending(b) == Len(b) # 0

\* variant: the bucket is emptied by reslicing, bucket = bucket[:0], so it
\* keeps its backing array
MakeBucket_Reslice(arrs, id) == [arrays |-> arrs, id |-> id]

\* bucket = make([]T, 0, size) after an exec call: a slice of length 0 over
\* a new backing array
MakeBucket(arrs, id) == [arrays |-> Append(arrs, <<>>), id |-> Len(arrs) + 1]

\* append(bucket, item) with len(bucket) = n below the capacity: item is
\* stored at index n of the backing array a
StoreAt(a, n, item) ==
    SubSeq(a, 1, n) \o <<item>> \o SubSeq(a, n + 2, Len(a))

InitChunk ==
    /\ size \in 1..MaxSize
    /\ toSend \in 0..MaxItems
    /\ itemsCh = [sent |-> 0, closed |-> FALSE]
    /\ bucket = <<>>
    /\ counter = 0
    /\ chunkPc = "range"
    /\ execCalls = <<>>
    /\ pending = "none"
    /\ errsClosed = FALSE
    /\ received = <<>>
    /\ consPc = "range"
    /\ arrays = << <<>> >>
    /\ bucketArr = 1
    /\ execArrs = <<>>
    /\ IdleServe
    /\ IdleResolve
    /\ IdleReduce
    /\ IdleShared
    /\ IdleRun

\* the producer sends the next item and the goroutine's range loop takes
\* it: append, count, and call exec when counter == size
ChunkReceive ==
    /\ chunkPc = "range"
    /\ ~itemsCh.closed
    /\ itemsCh.sent < toSend
    /\ itemsCh' = [itemsCh EXCEPT !.sent = @ + 1]
    /\ bucket' = Append(bucket, Item(itemsCh.sent + 1))
    /\ arrays' = [arrays EXCEPT ![bucketArr] =
                    StoreAt(@, Len(bucket), Item(itemsCh.sent + 1))]
    /\ counter' = counter + 1
    /\ IF counter + 1 = size
         THEN /\ execCalls' = Append(execCalls, bucket')
              /\ execArrs' = Append(execArrs, bucketArr)
              /\ \E e \in ExecResults : pending' = e
              /\ chunkPc' = "send"
         ELSE UNCHANGED <<execCalls, execArrs, pending, chunkPc>>
    /\ UNCHANGED <<size, toSend, errsClosed, received, consPc, bucketArr>>
    /\ UNCHANGED notChunk

\* the producer closes items after its last send
ProducerClose ==
    /\ itemsCh.sent = toSend
    /\ ~itemsCh.closed
    /\ chunkPc # "idle"
    /\ itemsCh' = [itemsCh EXCEPT !.closed = TRUE]
    /\ UNCHANGED <<size, toSend, bucket, counter, chunkPc, execCalls, pending,
                   errsClosed, received, consPc, arrays, bucketArr, execArrs>>
    /\ UNCHANGED notChunk

\* errs <- exec(bucket) inside the loop meets the consumer's receive; then
\* bucket = make([]T, 0, size); counter = 0
ChunkSend ==
    /\ chunkPc = "send"
    /\ consPc = "range"
    /\ received' = Append(received, pending)
    /\ pending' = "none"
    /\ bucket' = <<>>
    /\ arrays' = MakeBucket(arrays, bucketArr).arrays
    /\ bucketArr' = MakeBucket(arrays, bucketArr).id
    /\ counter' = 0
    /\ chunkPc' = "range"
    /\ UNCHANGED <<size, toSend, itemsCh, execCalls, errsClosed, consPc,
                   execArrs>>
    /\ UNCHANGED notChunk

\* the range loop ends on the closed channel; exec is called for what is
\* left in bucket
ChunkRangeEnd ==
    /\ chunkPc = "range"
    /\ itemsCh.closed
    /\ IF TailPending(bucket)
         THEN /\ execCalls' = Append(execCalls, bucket)
              /\ execArrs' = Append(execArrs, bucketArr)
              /\ \E e \in ExecResults : pending' = e
              /\ chunkPc' = "sendTail"
         ELSE /\ chunkPc' = "close"
              /\ UNCHANGED <<execCalls, execArrs, pending>>
    /\ UNCHANGED <<size, toSend, itemsCh, bucket, counter, errsClosed,
                   received, consPc, arrays, bucketArr>>
    /\ UNCHANGED notChunk

\* errs <- exec(bucket) after the loop meets the consumer's receive
ChunkSendTail ==
    /\ chunkPc = "sendTail"
    /\ consPc = "range"
    /\ received' = Append(received, pending)
    /\ pending' = "none"
    /\ chunkPc' = "close"
    /\ UNCHANGED <<size, toSend, itemsCh, bucket, counter, execCalls,
                   errsClosed, consPc, arrays, bucketArr, execArrs>>
    /\ UNCHANGED notChunk

\* close(errs)
ChunkClose ==
    /\ chunkPc = "close"
    /\ errsClosed' = TRUE
    /\ chunkPc' = "done"
    /\ UNCHANGED <<size, toSend, itemsCh, bucket, counter, execCalls, pending,
                   received, consPc, arrays, bucketArr, execArrs>>
    /\ UNCHANGED notChunk

\* the consumer's range over errs ends on the closed channel
ConsumerEnd ==
    /\ consPc = "range"
    /\ errsClosed
    /\ consPc' = "done"
    /\ UNCHANGED <<size, toSend, itemsCh, bucket, counter, chunkPc, execCalls,
                   pending, errsClosed, received, arrays, bucketArr, execArrs>>
    /\ UNCHANGED notChunk

NextChunk ==
    \/ ChunkReceive
    \/ ProducerClose
    \/ ChunkSend
    \/ ChunkRangeEnd
    \/ ChunkSendTail
    \/ ChunkClose
    \/ ConsumerEnd

SpecChunk == InitChunk /\ [][NextChunk]_vars

\* --------------------------------------- one Server, concurrent ServeHTTP
\* the calls in flight on the one Server
Calls == 1..MaxCalls

\* the ServerOption values NewServer is given
ServerBefore(n) == [opt |-> "ServerBefore", ids |-> Ids(n), h |-> "none"]

ServerAfter(n) == [opt |-> "ServerAfter", ids |-> Ids(n), h |-> "none"]

ServerFinalizer(n) == [opt |-> "ServerFinalizer", ids |-> Ids(n), h |-> "none"]

ServerErrorHandler(h) == [opt |-> "ServerErrorHandler", ids |-> <<>>, h |-> h]

\* applying one ServerOption to the Server being built
ApplyOption(s, o) ==
    CASE o.opt = "ServerBefore" -> [s EXCEPT !.before = @ \o o.ids]
      [] o.opt = "ServerAfter" -> [s EXCEPT !.after = @ \o o.ids]
      [] o.opt = "ServerFinalizer" -> [s EXCEPT !.finalizer = @ \o o.ids]
      [] o.opt = "ServerErrorHandler" -> [s EXCEPT !.errorHandler = o.h]

\* variant: a Server built without ServerErrorHandler routes errors to a
\* handler with effects of its own
DefaultErrorHandler_Custom == "custom"

\* errorHandler: ErrorHandlerFunc(LogErrorHandler)
DefaultErrorHandler == "LogErrorHandler"

RECURSIVE ApplyOptions(_, _, _)
\* for _, option := range options { option(s) }
ApplyOptions(s, opts, i) ==
    IF i > Len(opts) THEN s
    ELSE ApplyOptions(ApplyOption(s, opts[i]), opts, i + 1)

\* func NewServer(e, dec, enc, options...) *Server
NewServer(opts) ==
    ApplyOptions([before |-> <<>>, after |-> <<>>, finalizer |-> <<>>,
                  errorEncoder |-> "DefaultErrorEncoder",
                  errorHandler |-> DefaultErrorHandler], opts, 1)

\* the option lists of the explored Servers
OptionLists ==
    {<<>>,
     <<ServerFinalizer(MaxFinalizers)>>,
     <<ServerBefore(1), ServerAfter(1), ServerFinalizer(MaxFinalizers)>>,
     <<ServerBefore(1), ServerFinalizer(1), ServerErrorHandler("custom")>>}

\* what LogErrorHandler logs or emits for an error: nothing
LogErrorHandler(c, e) == <<>>

\* s.errorHandler.Handle(ctx, err): what the call logs or emits; a handler
\* installed with ServerErrorHandler emits a record of the error
HandlerEffects(h, c, e) ==
    IF h = "LogErrorHandler" THEN LogErrorHandler(c, e)
                             ELSE <<[call |-> c, err |-> e]>>

\* r.Context() of call c's request
RequestContextOf(c) ==
    [RequestContext EXCEPT !.hooks = <<[hook |-> "request", id |-> c]>>]

RECURSIVE RunHooks(_, _, _, _)
\* for _, f := range hooks { ctx = f(ctx, ...) }
RunHooks(c, kind, hooks, i) ==
    IF i > Len(hooks) THEN c
    ELSE RunHooks(HookContext(c, kind, hooks[i]), kind, hooks, i + 1)

RECURSIVE SetHookHeaders(_, _, _)
\* each ServerResponseFunc of the explored Servers sets a response header
SetHookHeaders(s, wr, n) ==
    IF n = 0 THEN s ELSE SetHookHeaders(W_HeaderSet(s, wr, "X-Hook", "v"), wr, n - 1)

\* variant: the interceptingWriter is kept on the Server, one for all calls
WriterOf_Shared(c) == 1

\* iw := &interceptingWriter{w, http.StatusOK, 0}: a writer of call c's own
WriterOf(c) == c

\* the locals of a ServeHTTP call that has not started
NewInvocation ==
    [pc |-> "start", ctx |-> RequestContext, err |-> NoErr, resp |-> NoResp,
     own |-> <<>>, routed |-> 0, fin |-> <<>>]

\* the writer operations a step added to the log of the writer it used
Added(old, new) == SubSeq(new.calls, Len(old.calls) + 1, Len(new.calls))

\* the errors and responses the stages return in the explored calls
CallErrors == {ErrorValue(FALSE, "none", FALSE), ErrorValue(TRUE, "ok", TRUE)}

CallResponses ==
    {ResponseValue(0, FALSE, TRUE), ResponseValue(InputCodes.created, TRUE, TRUE)}

\* the results of the transport's Write in the explored calls: all of p
\* written, or nothing written and an error
CallWriteResults(p) == {r \in WriteResults(p) : r[1] \in {0, p.len}}

InitShared ==
    /\ options \in OptionLists
    /\ server = NewServer(options)
    /\ invocations = [c \in Calls |-> NewInvocation]
    /\ writers = [c \in Calls |-> W(NoIW, NewResponseWriter, <<>>)]
    /\ emitted = <<>>
    /\ IdleServe
    /\ IdleResolve
    /\ IdleReduce
    /\ IdleChunk
    /\ IdleRun

Wrapped == Len(server.finalizer) > 0

\* ServeHTTP entered by call c: ctx := r.Context(), and with finalizers the
\* interceptingWriter is made around the call's ResponseWriter
CallBegin(c) ==
    /\ invocations[c].pc = "start"
    /\ invocations' = [invocations EXCEPT ![c].pc = "before",
                                          ![c].ctx = RequestContextOf(c)]
    /\ writers' = [writers EXCEPT ![WriterOf(c)] =
                     IF Wrapped THEN W(NewInterceptingWriter, NewResponseWriter, <<>>)
                                ELSE @]
    /\ UNCHANGED <<options, server, emitted>>
    /\ UNCHANGED notShared

\* the pre-hooks in order, then request, err := s.dec(ctx, r)
CallDecode(c) ==
    /\ invocations[c].pc = "before"
    /\ \E e \in {NoErr} \cup CallErrors :
         invocations' =
             [invocations EXCEPT
                ![c].ctx = RunHooks(@, "before", server.before, 1),
                ![c].err = e,
                ![c].pc = AfterDecode(e)]
    /\ UNCHANGED <<options, server, writers, emitted>>
    /\ UNCHANGED notShared

\* resp, err := s.h(ctx, request)
CallHandle(c) ==
    /\ invocations[c].pc = "h"
    /\ \/ \E v \in CallResponses :
            invocations' = [invocations EXCEPT ![c].resp = v,
                                               ![c].pc = AfterHandle(NoErr)]
       \/ \E e \in CallErrors :
            invocations' = [invocations EXCEPT ![c].err = e,
                                               ![c].pc = AfterHandle(e)]
    /\ UNCHANGED <<options, server, writers, emitted>>
    /\ UNCHANGED notShared

\* the post-hooks in order, then err = s.enc(ctx, w, resp)
CallEncode(c) ==
    /\ invocations[c].pc = "after"
    /\ \E r \in CallWriteResults(JSONBody(invocations[c].resp)) :
         LET old == writers[WriterOf(c)]
             s1 == SetHookHeaders(old, Wrapped, Len(server.after))
             out == EncodeJSONResponse(s1, Wrapped, invocations[c].resp, r[1], r[2])
         IN  /\ writers' = [writers EXCEPT ![WriterOf(c)] = out.w]
             /\ invocations' =
                  [invocations EXCEPT
                     ![c].ctx = RunHooks(@, "after", server.after, 1),
                     ![c].own = @ \o Added(old, out.w),
                     ![c].err = out.err,
                     ![c].pc = IF out.err # NoErr THEN "router" ELSE "defer"]
    /\ UNCHANGED <<options, server, emitted>>
    /\ UNCHANGED notShared

\* s.errorHandler.Handle(ctx, err)
CallHandleError(c) ==
    /\ invocations[c].pc = "router"
    /\ emitted' = emitted \o HandlerEffects(server.errorHandler, c, invocations[c].err)
    /\ invocations' = [invocations EXCEPT ![c].routed = @ + 1,
                                          ![c].pc = "errenc"]
    /\ UNCHANGED <<options, server, writers>>
    /\ UNCHANGED notShared

\* s.errorEncoder(ctx, err, w); return
CallEncodeError(c) ==
    /\ invocations[c].pc = "errenc"
    /\ \E r \in CallWriteResults(ErrorBody(invocations[c].err)) :
         LET old == writers[WriterOf(c)]
             new == DefaultErrorEncoder(old, Wrapped, invocations[c].err, r[1], r[2])
         IN  /\ writers' = [writers EXCEPT ![WriterOf(c)] = new]
             /\ invocations' = [invocations EXCEPT ![c].own = @ \o Added(old, new),
                                                   ![c].pc = "defer"]
    /\ UNCHANGED <<options, server, emitted>>
    /\ UNCHANGED notShared

\* r *http.Request: the inbound request of call c
Request(c) == [id |-> c, ctx |-> RequestContextOf(c)]

\* variant: the deferred function holds the context as it was when the
\* function was deferred
DeferredContext_AtDefer(c) == RequestContextOf(c)

\* the deferred closure reads the variable ctx when it runs, so it sees the
\* context the hooks last assigned
DeferredContext(c) == invocations[c].ctx

\* the deferred function of call c: annotate ctx from iw, then call every
\* finalizer with (ctx, iw.code, r)
CallDeferred(c) ==
    /\ invocations[c].pc = "defer"
    /\ LET s == writers[WriterOf(c)]
           fctx == FinalizerContext(DeferredContext(c), s.iw, s.rw)
       IN  invocations' =
             IF Wrapped
             THEN [invocations EXCEPT
                     ![c].ctx = fctx,
                     ![c].fin = [i \in 1..Len(server.finalizer) |->
                                   [id |-> server.finalizer[i], ctx |-> fctx,
                                    code |-> s.iw.code, r |-> Request(c)]],
                     ![c].pc = "done"]
             ELSE [invocations EXCEPT ![c].pc = "done"]
    /\ UNCHANGED <<options, server, writers, emitted>>
    /\ UNCHANGED notShared

NextShared ==
    \E c \in Calls :
        \/ CallBegin(c)
        \/ CallDecode(c)
        \/ CallHandle(c)
        \/ CallEncode(c)
        \/ CallHandleError(c)
        \/ CallEncodeError(c)
        \/ CallDeferred(c)

SpecShared == InitShared /\ [][NextShared]_vars

\* --------------------------------------------------------------------- Run
\* the forEach functions of the explored runs: one that always returns nil,
\* one that returns an error for the odd items
ForEachFns == {"nil", "oddErr"}

\* forEach(item)
ForEachResult(f, item) ==
    IF f = "oddErr" /\ item % 2 = 1 THEN "err" ELSE "nil"

\* variant: the returned channel is made without a buffer bound
ErrCapacity_Unbounded(w) == w + MaxItems

\* err := make(chan error, workers)
ErrCapacity(w) == w

\* variant: the closing goroutine does not wait for the workers
WaitReturns_NoWait(n) == TRUE

\* wg.Wait() returns when the counter is zero
WaitReturns(n) == n = 0

\* variant: a worker leaves its loop without wg.Done()
WgDone_Missing(n) == n

\* wg.Done()
WgDone(n) == n - 1

\* a worker goroutine at the head of its range loop
NewWorker == [pc |-> "range", item |-> 0, res |-> "none"]

InitRun ==
    /\ workers \in 1..MaxWorkers
    /\ forEach \in ForEachFns
    /\ runToSend \in 0..MaxItems
    /\ runItems = [sent |-> 0, closed |-> FALSE]
    /\ wk = [i \in 1..workers |-> NewWorker]
    /\ wg = workers
    /\ errCh = <<>>
    /\ errClosed = FALSE
    /\ closerPc = "wait"
    /\ runConsPc = "range"
    /\ forEachCalls = [k \in 1..runToSend |-> 0]
    /\ delivered = [k \in 1..runToSend |-> 0]
    /\ consumed = 0
    /\ panicked = FALSE
    /\ IdleServe
    /\ IdleResolve
    /\ IdleReduce
    /\ IdleChunk
    /\ IdleShared

\* the producer's next send meets worker i's receive in `for item := range
\* items`; the worker calls forEach(item)
RunReceive(i) ==
    /\ wk[i].pc = "range"
    /\ ~runItems.closed
    /\ runItems.sent < runToSend
    /\ LET item == Item(runItems.sent + 1)
       IN  /\ runItems' = [runItems EXCEPT !.sent = @ + 1]
           /\ wk' = [wk EXCEPT ![i] = [pc |-> "forEach", item |-> item,
                                       res |-> "none"]]
           /\ forEachCalls' = [forEachCalls EXCEPT ![item] = @ + 1]
    /\ UNCHANGED <<workers, forEach, runToSend, wg, errCh, errClosed, closerPc,
                   runConsPc, delivered, consumed, panicked>>
    /\ UNCHANGED notRun

\* forEach(item) returns in worker i
RunForEachReturn(i) ==
    /\ wk[i].pc = "forEach"
    /\ wk' = [wk EXCEPT ![i].pc = "send",
                        ![i].res = ForEachResult(forEach, wk[i].item)]
    /\ UNCHANGED <<workers, forEach, runToSend, runItems, wg, errCh, errClosed,
                   closerPc, runConsPc, forEachCalls, delivered, consumed,
                   panicked>>
    /\ UNCHANGED notRun

\* err <- result in worker i: panics on a closed channel, else proceeds when
\* the buffer has room
RunSend(i) ==
    /\ wk[i].pc = "send"
    /\ IF errClosed
         THEN /\ panicked' = TRUE
              /\ wk' = [wk EXCEPT ![i].pc = "panic"]
              /\ UNCHANGED <<errCh, delivered>>
         ELSE /\ Len(errCh) < ErrCapacity(workers)
              /\ errCh' = Append(errCh, [item |-> wk[i].item, res |-> wk[i].res])
              /\ delivered' = [delivered EXCEPT ![wk[i].item] = @ + 1]
              /\ wk' = [wk EXCEPT ![i] = NewWorker]
              /\ UNCHANGED panicked
    /\ UNCHANGED <<workers, forEach, runToSend, runItems, wg, errClosed,
                   closerPc, runConsPc, forEachCalls, consumed>>
    /\ UNCHANGED notRun

\* worker i's range loop ends on the closed input channel; wg.Done()
RunWorkerDone(i) ==
    /\ wk[i].pc = "range"
    /\ runItems.closed
    /\ wg' = WgDone(wg)
    /\ wk' = [wk EXCEPT ![i].pc = "exit"]
    /\ UNCHANGED <<workers, forEach, runToSend, runItems, errCh, errClosed,
                   closerPc, runConsPc, forEachCalls, delivered, consumed,
                   panicked>>
    /\ UNCHANGED notRun

\* the producer closes the input channel after its last send
RunProducerClose ==
    /\ closerPc # "idle"
    /\ runItems.sent = runToSend
    /\ ~runItems.closed
    /\ runItems' = [runItems EXCEPT !.closed = TRUE]
    /\ UNCHANGED <<workers, forEach, runToSend, wk, wg, errCh, errClosed,
                   closerPc, runConsPc, forEachCalls, delivered, consumed,
                   panicked>>
    /\ UNCHANGED notRun

\* wg.Wait() returns; close(err)
RunClose ==
    /\ closerPc = "wait"
    /\ WaitReturns(wg)
    /\ errClosed' = TRUE
    /\ closerPc' = "done"
    /\ UNCHANGED <<workers, forEach, runToSend, runItems, wk, wg, errCh,
                   runConsPc, forEachCalls, delivered, consumed, panicked>>
    /\ UNCHANGED notRun

\* the consumer receives the oldest result in the buffer
RunConsume ==
    /\ runConsPc = "range"
    /\ Len(errCh) > 0
    /\ errCh' = Tail(errCh)
    /\ consumed' = consumed + 1
    /\ UNCHANGED <<workers, forEach, runToSend, runItems, wk, wg, errClosed,
                   closerPc, runConsPc, forEachCalls, delivered, panicked>>
    /\ UNCHANGED notRun

\* the consumer's range over the returned channel ends: closed and drained
RunConsumerEnd ==
    /\ runConsPc = "range"
    /\ errClosed
    /\ Len(errCh) = 0
    /\ runConsPc' = "done"
    /\ UNCHANGED <<workers, forEach, runToSend, runItems, wk, wg, errCh,
                   errClosed, closerPc, forEachCalls, delivered, consumed,
                   panicked>>
    /\ UNCHANGED notRun

\* the steps of worker i
Worker(i) ==
    \/ RunReceive(i)
    \/ RunForEachReturn(i)
    \/ RunSend(i)
    \/ RunWorkerDone(i)

NextRun ==
    \/ \E i \in 1..workers : Worker(i)
    \/ RunProducerClose
    \/ RunClose
    \/ RunConsume
    \/ RunConsumerEnd

SpecRun == InitRun /\ [][NextRun]_vars

\* the runs in which the producer goes on to close the input channel, every
\* forEach returns, the consumer keeps receiving, and every goroutine that
\* can take a step is eventually scheduled
FairRun ==
    /\ \A i \in 1..MaxWorkers : WF_vars(i \in 1..workers /\ Worker(i))
    /\ WF_vars(RunProducerClose)
    /\ WF_vars(RunClose)
    /\ WF_vars(RunConsume)
    /\ WF_vars(RunConsumerEnd)

SpecRunFair == InitRun /\ [][NextRun]_vars /\ FairRun

\* ------------------------------------------------- trace vocabulary
Done == pc = "done"

\* positions of the trace holding an event of kind k
At(k) == {i \in DOMAIN trace : trace[i].ev = k}

Count(k) == Cardinality(At(k))

\* the ids of the events of kind k, in trace order
IdsOf(k) ==
    LET s == SelectSeq(trace, LAMBDA e : e.ev = k)
    IN  [i \in 1..Len(s) |-> s[i].id]

IsPrefix(s, t) == Len(s) <= Len(t) /\ s = SubSeq(t, 1, Len(s))

\* positions where a stage (decode, handle, encode) returned an error
Failures ==
    {i \in DOMAIN trace : trace[i].ev \in {"dec", "h", "encRet"} /\ trace[i].err # NoErr}

\* writer calls of kind o made on w so far
CallsOf(o) == SelectSeq(calls, LAMBDA c : c.op = o)

\* ---------------------------------------------------------------- claims
\* C1: pre-hooks all complete before the decoder is invoked, post-hooks all
\* complete before the encoder is invoked, hooks run in registration order
\* and at most once each, and every finalizer starts only after decode,
\* handle, post-hooks, encode and error rendering have completed.
Inv_C1_StageOrder ==
    /\ IsPrefix(IdsOf("before"), before)
    /\ IsPrefix(IdsOf("after"), after)
    /\ \A j \in At("dec") :
         /\ IdsOf("before") = before
         /\ \A i \in At("before") : i < j
    /\ \A j \in At("enc") :
         /\ IdsOf("after") = after
         /\ \A i \in At("after") : i < j
    /\ \A i \in At("fin") :
         /\ \A j \in DOMAIN trace : j > i => trace[j].ev = "fin"
         /\ Count("dec") = 1
         /\ Count("enc") = Count("encRet")
         /\ Failures # {} => Count("errenc") = 1
         /\ Failures = {} => Count("h") = 1 /\ Count("enc") = 1
                             /\ IdsOf("after") = after

Wit_C1_StageOrder ==
    /\ Done
    /\ Len(before) = 2 /\ Len(after) = 2 /\ Len(finalizer) = 2
    /\ Count("fin") = 2
    /\ Count("errenc") = 1
    /\ Count("enc") = 1

\* C2: a decoder error means the handler, the post-hooks and the encoder are
\* never invoked; a handler error means the post-hooks and the encoder are
\* never invoked; only error routing, error rendering and finalizers follow.
Inv_C2_ShortCircuit ==
    \A i \in Failures :
        trace[i].ev \in {"dec", "h"} =>
            \A j \in DOMAIN trace :
                j > i => trace[j].ev \in {"router", "errenc", "fin"}

Wit_C2_ShortCircuit ==
    /\ Done
    /\ \E i \in Failures : trace[i].ev = "dec"
    /\ Len(after) > 0
    /\ Count("fin") > 0
    /\ Count("errenc") = 1

\* C3: a finished call has exactly one of two outcomes: (a) the encoder was
\* invoked once, returned no error and the error encoder was never invoked;
\* (b) a stage returned an error, the error encoder was invoked exactly once
\* with that error and the encoder was not invoked after the failure.
EncodedOK ==
    /\ Count("enc") = 1
    /\ \E i \in At("encRet") : trace[i].err = NoErr
    /\ Count("errenc") = 0

EncodedError ==
    \E i \in Failures :
        /\ Count("errenc") = 1
        /\ \A j \in At("errenc") : trace[j].err = trace[i].err /\ j > i
        /\ \A j \in At("enc") : j < i

Inv_C3_OneOutcome ==
    /\ Count("errenc") <= 1
    /\ Count("enc") <= 1
    /\ Done => (EncodedOK /\ ~EncodedError) \/ (EncodedError /\ ~EncodedOK)
    /\ Done /\ Failures = {} => Count("errenc") = 0

Wit_C3_OneOutcome ==
    /\ Done
    /\ EncodedError
    /\ \E i \in Failures : trace[i].ev = "encRet"
    /\ Len(CallsOf("Write")) = 2

\* C4: when finalizers are configured, each of them is invoked exactly once
\* per call, whichever stage failed or none.
Inv_C4_FinalizersOnce ==
    /\ IsPrefix(IdsOf("fin"), finalizer)
    /\ Done => IdsOf("fin") = finalizer

Wit_C4_FinalizersOnce ==
    /\ Done
    /\ Len(finalizer) = 2
    /\ \E i \in Failures : trace[i].ev = "h"

\* the status code the transport sent, or will send when the call returns
\* without any status or body write
SentStatus == IF rw.wroteHeader THEN rw.status ELSE StatusOK

RECURSIVE SumN(_)
\* the sum of the byte counts the transport's Writes reported
SumN(ops) ==
    IF ops = <<>> THEN 0
    ELSE (IF Head(ops).op = "Write" THEN Head(ops).n ELSE 0) + SumN(Tail(ops))

\* C5: the status code passed to every finalizer equals the status code the
\* transport actually sent in that call (first status write wins; a body
\* write with no prior status write sends 200), on every path.
Inv_C5_FinalizerSeesSentStatus ==
    \A i \in At("fin") : trace[i].code = SentStatus

\* C6: the byte count finalizers observe equals the sum of the byte counts
\* the wrapped writer reported for every Write of the call, failed encoder
\* output and failing Writes included.
Inv_C6_FinalizerSeesBytes ==
    \A i \in At("fin") :
        /\ trace[i].ctx.annotated
        /\ trace[i].ctx.size = SumN(rw.ops)
        /\ trace[i].ctx.size = rw.sent

Wit_C6_FinalizerSeesBytes ==
    /\ Done
    /\ Count("fin") > 0
    /\ \E i \in Failures : trace[i].ev = "encRet"
    /\ \E k \in DOMAIN rw.ops :
         rw.ops[k].op = "Write" /\ rw.ops[k].err # NoErr /\ rw.ops[k].n = 1
    /\ rw.sent = 1 + MaxBody

\* C7: every stage error is reported to the error router exactly once and
\* before the error encoder receives the same error; the router is never
\* invoked without a failure, the error encoder always follows it, and the
\* call is not retried or resumed afterwards.
Inv_C7_RouterBeforeEncoder ==
    /\ \A j \in At("router") :
         /\ j - 1 \in Failures
         /\ trace[j].err = trace[j - 1].err
    /\ \A j \in At("errenc") :
         /\ j - 1 \in At("router")
         /\ trace[j].err = trace[j - 1].err
         /\ \A k \in DOMAIN trace : k > j => trace[k].ev = "fin"
    /\ Count("router") <= 1
    /\ Done => Count("router") = Cardinality(Failures)
               /\ Count("errenc") = Cardinality(Failures)

Wit_C7_RouterBeforeEncoder ==
    /\ Done
    /\ Count("router") = 1
    /\ \E i \in Failures : trace[i].ev = "dec"

\* C8: a call that succeeds through EncodeJSONResponse invokes the encoder
\* exactly once and either resolves a status other than 204 and writes the
\* serialized body, or resolves 204 and makes no body write at all, so that
\* a finalizer observes status 204 and byte count 0.
JSONSucceeded ==
    enc = "json" /\ \E i \in At("encRet") : trace[i].err = NoErr

Inv_C8_BodyOrNoContent ==
    JSONSucceeded =>
        /\ Count("enc") = 1
        /\ Len(CallsOf("WriteHeader")) = 1
        /\ LET code == CallsOf("WriteHeader")[1].code
               bodyWritten == /\ Len(CallsOf("Write")) = 1
                              /\ CallsOf("Write")[1].p = JSONBody(resp)
               suppressed == /\ Len(CallsOf("Write")) = 0
                             /\ rw.sent = 0
                             /\ \A i \in At("fin") :
                                  trace[i].code = StatusNoContent
                                  /\ trace[i].ctx.size = 0
           IN  /\ code = ResponseCode(resp)
               /\ code # StatusNoContent => bodyWritten /\ ~suppressed
               /\ code = StatusNoContent => suppressed /\ ~bodyWritten

Wit_C8_BodyOrNoContent ==
    /\ Done
    /\ JSONSucceeded
    /\ resp = ResponseValue(StatusNoContent, FALSE, TRUE)
    /\ Count("fin") > 0

\* C9: the interceptingWriter's recorded status is 200 from construction
\* until the first WriteHeader call, whatever Write and Header operations
\* are made, so a body written with no explicit status call makes
\* finalizers observe 200.
Inv_C9_DefaultStatus ==
    wrapped /\ Len(CallsOf("WriteHeader")) = 0 =>
        /\ iw.code = StatusOK
        /\ \A i \in At("fin") : trace[i].code = StatusOK

Wit_C9_DefaultStatus ==
    /\ Count("fin") > 0
    /\ Len(CallsOf("WriteHeader")) = 0
    /\ Len(CallsOf("Write")) > 0
    /\ Len(CallsOf("Set")) > 0

\* C10: the interceptingWriter is a pure pass-through: the wrapped writer
\* receives the same operations with the same arguments in the same order,
\* one per call, and each call returns what the wrapped writer returned.
Inv_C10_PassThrough ==
    wrapped => calls = rw.ops

Wit_C10_PassThrough ==
    /\ wrapped
    /\ Len(CallsOf("WriteHeader")) = 2
    /\ Len(CallsOf("Write")) = 2
    /\ Len(CallsOf("Add")) > 0
    /\ \E k \in DOMAIN calls : calls[k].op = "Write" /\ calls[k].err # NoErr

\* the status the interceptingWriter has recorded from the calls made on w
RecordedCode ==
    IF Len(CallsOf("WriteHeader")) = 0 THEN StatusOK
    ELSE CallsOf("WriteHeader")[Len(CallsOf("WriteHeader"))].code

\* C19: when a hook, the decoder, the handler or the encoder panics, every
\* configured finalizer is still invoked exactly once, with the status code
\* and byte count recorded up to the panic.
Inv_C19_FinalizersOnPanic ==
    /\ \A i \in At("panic") :
         \A j \in DOMAIN trace : j > i => trace[j].ev = "fin"
    /\ Count("panic") > 0 =>
         /\ IsPrefix(IdsOf("fin"), finalizer)
         /\ Done => IdsOf("fin") = finalizer
         /\ \A i \in At("fin") :
              /\ trace[i].code = RecordedCode
              /\ trace[i].ctx.size = SumN(calls)

Wit_C19_FinalizersOnPanic ==
    /\ Done
    /\ Count("panic") = 1
    /\ Count("fin") = 2
    /\ Len(CallsOf("Write")) = 1
    /\ SumN(calls) > 0

\* the context after the first k pre-hooks
BeforeCtx(k) ==
    [RequestContext EXCEPT
        !.hooks = [i \in 1..k |-> [hook |-> "before", id |-> before[i]]]]

\* the context after all pre-hooks and the first k post-hooks
AfterCtx(k) ==
    [RequestContext EXCEPT
        !.hooks = BeforeCtx(Len(before)).hooks
                  \o [i \in 1..k |-> [hook |-> "after", id |-> after[i]]]]

\* number of events of kind k before position i
Earlier(k, i) == Cardinality({j \in At(k) : j < i})

\* C20: the first pre-hook receives the request's context and each later
\* one the context the previous hook returned; decoder, handler and their
\* error path receive the last pre-hook's context; post-hooks chain on, and
\* the encoder and its error path receive the last post-hook's context.
Inv_C20_ContextThreading ==
    /\ \A i \in At("before") : trace[i].ctx = BeforeCtx(Earlier("before", i))
    /\ \A i \in At("dec") \cup At("h") : trace[i].ctx = BeforeCtx(Len(before))
    /\ \A i \in At("after") : trace[i].ctx = AfterCtx(Earlier("after", i))
    /\ \A i \in At("enc") \cup At("encRet") : trace[i].ctx = AfterCtx(Len(after))
    /\ \A i \in At("router") \cup At("errenc") :
         \A f \in Failures :
            trace[i].ctx = IF trace[f].ev = "encRet" THEN AfterCtx(Len(after))
                                                     ELSE BeforeCtx(Len(before))
    /\ Len(before) = 0 /\ Len(after) = 0 =>
         \A i \in DOMAIN trace : trace[i].ev # "fin" => trace[i].ctx = RequestContext

Wit_C20_ContextThreading ==
    /\ Done
    /\ Len(before) = 2
    /\ Len(after) = 2
    /\ Count("errenc") = 1
    /\ \E f \in Failures : trace[f].ev = "encRet"

\* ------------------------------------------------- resolution vocabulary
\* the calls the encoder made on its writer
RCalls == result.w.calls

\* positions of the calls of kind o
RAt(o) == {i \in DOMAIN RCalls : RCalls[i].op = o}

JSONType == "application/json; charset=utf-8"

TextType == "text/plain; charset=utf-8"

\* C11: DefaultErrorEncoder writes the error's StatusCode() or else 500,
\* sets Content-Type to JSON with the marshaled body if MarshalJSON
\* succeeds and else text/plain with the message, adds the error's headers
\* after Content-Type, and makes exactly one status write followed by
\* exactly one body write.
Inv_C11_ErrorEncoding ==
    value.kind = "error" /\ result.done =>
        LET e == value.e
            json == e.ms = "ok"
        IN  /\ RCalls[1] = Op("Set", "Content-Type",
                              IF json THEN JSONType ELSE TextType,
                              0, NoBody, 0, NoErr)
            /\ Cardinality(RAt("Set")) = 1
            /\ Cardinality(RAt("Add")) = IF e.hd THEN 1 ELSE 0
            /\ \A i \in RAt("Add") : i = 2 /\ RCalls[i].key = "X-Cap"
            /\ Cardinality(RAt("WriteHeader")) = 1
            /\ Cardinality(RAt("Write")) = 1
            /\ \A i \in RAt("WriteHeader") :
                 /\ i = Len(RCalls) - 1
                 /\ RCalls[i].code = IF e.sc THEN e.code
                                             ELSE StatusInternalServerError
            /\ \A i \in RAt("Write") :
                 /\ i = Len(RCalls)
                 /\ RCalls[i].p.src = IF json THEN "errjson" ELSE "errtext"
            /\ result.w.rw.header["Content-Type"] =
                 <<IF json THEN JSONType ELSE TextType>>
            /\ result.w.rw.status = IF e.sc THEN e.code
                                            ELSE StatusInternalServerError

Wit_C11_ErrorEncoding ==
    /\ result.done
    /\ value.e = ErrorValue(TRUE, "fail", TRUE)
    /\ value.wr

\* C12: EncodeJSONResponse sets the JSON Content-Type first, then adds the
\* value's headers, then writes the value's StatusCode() or else 200, once
\* and before any body write; a value with no capabilities yields 200, the
\* default content type and a serialized body.
Inv_C12_ResponseEncoding ==
    value.kind = "response" /\ result.done =>
        LET v == value.r
        IN  /\ RCalls[1] = Op("Set", "Content-Type", JSONType, 0, NoBody, 0, NoErr)
            /\ Cardinality(RAt("Add")) = IF v.hd THEN 1 ELSE 0
            /\ \A i \in RAt("Add") : i = 2
            /\ Cardinality(RAt("WriteHeader")) = 1
            /\ \A i \in RAt("WriteHeader") :
                 /\ i = IF v.hd THEN 3 ELSE 2
                 /\ RCalls[i].code = IF v.sc THEN v.code ELSE StatusOK
                 /\ \A j \in RAt("Write") : i < j
            /\ ~v.sc /\ ~v.hd /\ v.mok =>
                 /\ result.w.rw.status = StatusOK
                 /\ result.w.rw.header["Content-Type"] = <<JSONType>>
                 /\ Cardinality(RAt("Write")) = 1
                 /\ \A j \in RAt("Write") : RCalls[j].p = JSONBody(v)

Wit_C12_ResponseEncoding ==
    /\ result.done
    /\ value.kind = "response"
    /\ value.r = ResponseValue(InputCodes.created, TRUE, TRUE)
    /\ result.err = NoErr

\* the body json.NewEncoder(w).Encode writes for a value that marshals
EncodedBody(v) == [src |-> "json", len |-> Marshal(v).len + 1]

\* C13 as stated: for any v and c, AddStatusCode(v, c) has StatusCode() c
\* and the serialization of v, and through EncodeJSONResponse it produces
\* status c and the body of v.
Inv_C13_WrapperAnyCode ==
    value.kind = "wrapper" /\ result.done /\ value.r.mok =>
        /\ ReponseCode_StatusCode(AddStatusCode(value.r, value.code)) = value.code
        /\ ReponseCode_MarshalJSON(AddStatusCode(value.r, value.code)) = Marshal(value.r)
        /\ result.w.rw.status = value.code
        /\ Cardinality(RAt("Write")) = 1
        /\ \A j \in RAt("Write") : RCalls[j].p = EncodedBody(value.r)

\* C13 amended: as stated for every code other than 204; with code 204 the
\* status is 204 and no body is written.
Inv_C13_WrapperCode ==
    value.kind = "wrapper" /\ result.done =>
        /\ ReponseCode_StatusCode(AddStatusCode(value.r, value.code)) = value.code
        /\ ReponseCode_MarshalJSON(AddStatusCode(value.r, value.code)) = Marshal(value.r)
        /\ result.w.rw.status = value.code
        /\ value.code # StatusNoContent /\ value.r.mok =>
             /\ Cardinality(RAt("Write")) = 1
             /\ \A j \in RAt("Write") : RCalls[j].p = EncodedBody(value.r)
        /\ value.code = StatusNoContent =>
             /\ Cardinality(RAt("Write")) = 0
             /\ result.err = NoErr

Wit_C13_WrapperCode ==
    /\ result.done
    /\ value.kind = "wrapper"
    /\ value.code = InputCodes.created
    /\ value.r = ResponseValue(StatusNoContent, TRUE, TRUE)
    /\ result.err = NoErr
    /\ result.w.rw.sent = MaxBody

RECURSIVE FoldLeft(_, _, _, _)
\* the left fold of reducer f over l from (0-based) index i with accumulator a
FoldLeft(f, l, i, a) ==
    IF i >= Len(l) THEN a
    ELSE FoldLeft(f, l, i + 1, Apply(f, a, i, l[i + 1]))

\* C18: Reduce is the left fold in index order: the reducer is called once
\* per element with indices 0..len-1 in increasing order, each call gets the
\* previous call's result (init for the first), the result is the last
\* accumulator, and an empty slice gives init without calling the reducer.
Inv_C18_ReduceIsLeftFold ==
    /\ \A k \in DOMAIN redCalls :
         /\ redCalls[k].index = k - 1
         /\ redCalls[k].item = redItems[k]
         /\ redCalls[k].accum = IF k = 1 THEN redInit ELSE redCalls[k - 1].ret
    /\ redPc = "done" =>
         /\ Len(redCalls) = Len(redItems)
         /\ initialValue = FoldLeft(reducer, redItems, 0, redInit)
         /\ redCalls # <<>> => initialValue = redCalls[Len(redCalls)].ret
         /\ redItems = <<>> => initialValue = redInit /\ redCalls = <<>>

Wit_C18_ReduceIsLeftFold ==
    /\ redPc = "done"
    /\ reducer = "weighted"
    /\ redItems = <<1, 2, 1>>
    /\ redInit = 1

\* ceil(n / k)
Ceil(n, k) == (n + k - 1) \div k

\* C17: for size >= 1 and n items sent before the close, with a consumer
\* draining the returned channel, exec is invoked ceil(n/size) times, one
\* result per invocation is delivered, and the channel is then closed so
\* the consumer's loop ends.
Inv_C17_ChunkCalls ==
    /\ Len(execCalls) <= Ceil(toSend, size)
    /\ Len(received) + (IF pending = "none" THEN 0 ELSE 1) = Len(execCalls)
    /\ errsClosed => /\ Len(execCalls) = Ceil(toSend, size)
                     /\ Len(received) = Len(execCalls)
    /\ consPc = "done" => errsClosed /\ Len(received) = Ceil(toSend, size)
    /\ chunkPc # "idle" /\ ~ENABLED NextChunk =>
         consPc = "done" /\ chunkPc = "done"

Wit_C17_ChunkCalls ==
    /\ consPc = "done"
    /\ size = 2
    /\ toSend = 3
    /\ Len(received) = 2

\* ------------------------------------------------ shared-Server vocabulary
\* the status a call's own status writes leave recorded: the last one, or
\* 200 when it made none
RECURSIVE OwnCode(_, _)
OwnCode(log, i) ==
    IF i = 0 THEN StatusOK
    ELSE IF log[i].op = "WriteHeader" THEN log[i].code ELSE OwnCode(log, i - 1)

\* the bytes a call's own body writes report
RECURSIVE OwnBytes(_, _)
OwnBytes(log, i) ==
    IF i = 0 THEN 0
    ELSE OwnBytes(log, i - 1) + (IF log[i].op = "Write" THEN log[i].n ELSE 0)

\* the context chain call c has built when it reaches its finalizers on a
\* path that ran the post-hooks (TRUE) or left before them (FALSE)
CallChain(c, post) ==
    <<[hook |-> "request", id |-> c]>>
    \o [i \in 1..Len(server.before) |-> [hook |-> "before", id |-> server.before[i]]]
    \o (IF post THEN [i \in 1..Len(server.after) |->
                        [hook |-> "after", id |-> server.after[i]]]
                ELSE <<>>)

\* C14: with several ServeHTTP calls in flight on one Server, the finalizers
\* of each call are handed the status, the byte count and the context chain
\* of that call alone, whatever the other calls did, and the Server's
\* configuration stays what NewServer built.
Inv_C14_CallsIsolated ==
    /\ server = NewServer(options)
    /\ \A c \in Calls :
         \A i \in 1..Len(invocations[c].fin) :
            LET f == invocations[c].fin[i]
                own == invocations[c].own
            IN  /\ f.code = OwnCode(own, Len(own))
                /\ f.ctx.size = OwnBytes(own, Len(own))
                /\ f.ctx.hooks \in {CallChain(c, TRUE), CallChain(c, FALSE)}

\* one call has finished and its finalizers were handed its 201 and its
\* bytes, while another call, between its encoder's writes and its error
\* encoder's, has recorded a different status on its own writer
Wit_C14_CallsIsolated ==
    \E c, d \in Calls :
        /\ c # d
        /\ invocations[c].pc = "done"
        /\ Len(invocations[c].fin) > 0
        /\ invocations[c].fin[1].code = InputCodes.created
        /\ invocations[c].fin[1].ctx.size > 0
        /\ invocations[d].pc = "errenc"
        /\ Len(invocations[d].own) > 0
        /\ writers[WriterOf(d)].iw.code = StatusOK

Inv_C21_FinalizerArguments ==
    \A c \in Calls :
        LET fin == invocations[c].fin
            s == writers[WriterOf(c)]
            post == invocations[c].resp # NoResp
        IN  Len(fin) > 0 =>
              /\ [i \in 1..Len(fin) |-> fin[i].id] = server.finalizer
              /\ \A i \in 1..Len(fin) :
                   /\ fin[i].r = Request(c)
                   /\ fin[i].code = s.iw.code
                   /\ fin[i].ctx = fin[1].ctx
              /\ fin[1].ctx.hooks = CallChain(c, post)
              /\ fin[1].ctx.annotated
              /\ fin[1].ctx.headers = s.rw.header
              /\ fin[1].ctx.size = s.iw.written

\* a call with several finalizers and with hooks on both sides has run its
\* finalizers after a response was encoded and bytes were written
Wit_C21_FinalizerArguments ==
    \E c \in Calls :
        /\ Len(invocations[c].fin) > 1
        /\ Len(server.before) > 0 /\ Len(server.after) > 0
        /\ invocations[c].resp # NoResp
        /\ invocations[c].fin[1].ctx.size > 0
        /\ Len(invocations[c].fin[1].ctx.hooks) > 2

\* ------------------------------------------------------- Chunk vocabulary
\* the slices of l concatenated in order
RECURSIVE Concat(_, _)
Concat(l, i) == IF i = 0 THEN <<>> ELSE Concat(l, i - 1) \o l[i]

\* the first n items the producer sends, in the order it sends them
ItemsUpTo(n) == [k \in 1..n |-> Item(k)]

\* C22: for size >= 1 the slices handed to successive exec calls,
\* concatenated in call order, are the items in arrival order with none lost
\* or duplicated; every slice but the last has exactly size items, the last
\* has between 1 and size, and the backing array of a slice handed to exec
\* is not written afterwards.
Inv_C22_ChunkPreservesStream ==
    chunkPc # "idle" =>
      LET handed == Concat(execCalls, Len(execCalls))
      IN  /\ IF chunkPc = "range"
               THEN handed \o bucket = ItemsUpTo(itemsCh.sent)
               ELSE handed = ItemsUpTo(itemsCh.sent)
          /\ chunkPc = "done" => handed = ItemsUpTo(toSend)
          /\ \A k \in 1..Len(execCalls) :
               /\ Len(execCalls[k]) \in 1..size
               /\ k < Len(execCalls) => Len(execCalls[k]) = size
               /\ Len(execCalls[k]) < size => itemsCh.closed
               /\ arrays[execArrs[k]] = execCalls[k]

\* the items did not fill a whole number of slices: exec was called with
\* full slices and then with a shorter last one
Wit_C22_ChunkPreservesStream ==
    /\ chunkPc = "done"
    /\ Len(execCalls) > 1
    /\ Len(execCalls[1]) = size
    /\ Len(execCalls[Len(execCalls)]) < size
    /\ bucketArr > 1

\* --------------------------------------------------------- Run vocabulary
\* the workers that hold item k: forEach(k) in progress or its result unsent
Holding(k) ==
    {i \in DOMAIN wk : wk[i].item = k /\ wk[i].pc \in {"forEach", "send"}}

\* how many results have been sent on the returned channel
RECURSIVE Delivered(_)
Delivered(k) == IF k = 0 THEN 0 ELSE Delivered(k - 1) + delivered[k]

\* the forEach invocations in progress
InForEach == {i \in DOMAIN wk : wk[i].pc = "forEach"}

\* Run has come to its end: every item processed, every goroutine returned,
\* the returned channel closed and drained by the consumer
RunFinished ==
    /\ \A k \in 1..runToSend : forEachCalls[k] = 1 /\ delivered[k] = 1
    /\ \A i \in DOMAIN wk : wk[i].pc = "exit"
    /\ closerPc = "done"
    /\ errClosed
    /\ runConsPc = "done"
    /\ consumed = runToSend

\* C23: under any interleaving of the workers, every item received from the
\* input channel is passed to forEach exactly once, by one worker; one
\* result per received item is sent on the returned channel; and that
\* channel is closed only after the input channel was closed and every
\* worker has sent its last result, so no send meets a closed channel and
\* no result is lost.
Inv_C23_RunExactlyOnce ==
    closerPc # "idle" =>
      /\ \A k \in 1..runToSend :
           /\ forEachCalls[k] = IF k <= runItems.sent THEN 1 ELSE 0
           /\ Cardinality(Holding(k)) <= 1
           /\ delivered[k] + Cardinality(Holding(k)) = forEachCalls[k]
      /\ consumed + Len(errCh) = Delivered(runToSend)
      /\ errClosed =>
           /\ runItems.closed
           /\ \A i \in DOMAIN wk : wk[i].pc = "exit"
           /\ \A k \in 1..runItems.sent : delivered[k] = 1
      /\ ~panicked

\* several workers have shared several items, and the channel was closed
\* after the last result
Wit_C23_RunExactlyOnce ==
    /\ errClosed
    /\ workers > 1
    /\ runToSend > workers
    /\ forEach = "oddErr"
    /\ consumed = runToSend

\* C24: in every reachable state at most workers forEach invocations are in
\* progress and at most workers results sit unread in the returned channel.
Inv_C24_RunBounded ==
    /\ Cardinality(InForEach) <= workers
    /\ Len(errCh) <= workers

\* with several workers the returned channel is full and a worker that has
\* a result waits to send it
Wit_C24_RunBounded ==
    /\ workers > 1
    /\ Len(errCh) = workers
    /\ \E i \in DOMAIN wk : wk[i].pc = "send"

\* C25: for workers >= 1, when the producer closes the input channel, every
\* forEach returns and the consumer keeps receiving, fair scheduling brings
\* Run to its end: every item the producer offers is processed, the returned
\* channel is closed, and no worker or closing goroutine stays blocked.
Live_C25_RunTerminates == <>RunFinished

\* a run with several workers and more items than workers has ended
Wit_C25_RunTerminates ==
    /\ RunFinished
    /\ workers > 1
    /\ runToSend > workers

====
